---- MODULE Spec2Model ----
(***************************************************************************)
(* Model of scripts/dialent/common/evalmatrix.py: the construction of an   *)
(* EvaluationMatrix (TagData partition, reordered arrays, priority matrix) *)
(* and findSolution with the recursive search _recursiveSearch, run as an  *)
(* explicit call stack.                                                    *)
(*                                                                         *)
(* Indices are 0-based as in the source; a Python list l is a sequence and *)
(* l[i] is written l[i + 1].  A priority p stands for the real p / PScale  *)
(* (PScale is the perfect priority 1.0), a quality q for q / QScale.       *)
(* Metrics values are exact rationals [num, den].                          *)
(***************************************************************************)
EXTENDS Integers, Sequences, FiniteSets, TLC

\* ----- bounds of the model -----
MaxStd == 3
MaxTest == 2
MaxRaw == 2
MaxId == 2
MaxRuns == 2
PScale == 2
QScale == 1

\* ----- program constants -----
allowed_tags == <<"per", "loc", "org", "locorg">>

AllowedSet == {allowed_tags[i] : i \in 1..Len(allowed_tags)}

\* the tags an input object may carry: the recognized ones and one that is not
RawTags == AllowedSet \cup {"misc"}

PLevels == 0..PScale
QLevels == 0..QScale

VARIABLES
    rawStd,     \* the std argument of __init__: objects [tag, id, ref]
    rawTest,    \* the test argument of __init__
    calc,       \* the scorer: [priority, quality], functions of two objects
    calls,      \* how many times the caller will still call findSolution
    pc,         \* "new", "ready", "search", "done", "error"
    s,          \* self.s : tag -> TagData
    t,          \* self.t : tag -> TagData
    std,        \* self.std, the reordered standard array
    test,       \* self.test, the reordered test array
    n_std,      \* self.n_std
    n_test,     \* self.n_test
    m,          \* self.m, the priority matrix
    stack,      \* the call stack of _recursiveSearch
    ret,        \* the value returned by the call that finished last
    matching,   \* the value returned by findSolution
    metrics,    \* self.metrics
    q_runs      \* the q of each finished findSolution call, oldest first

vars == <<rawStd, rawTest, calc, calls, pc, s, t, std, test, n_std, n_test, m,
          stack, ret, matching, metrics, q_runs>>

\* ----- Python helpers -----

\* list(range(n))
Range(n) == [i \in 1..n |-> i - 1]

\* the elements of a list
Elems(l) == {l[i] : i \in 1..Len(l)}

\* mutant of RemoveAt: the committed test index stays in the pool
RemoveAt_keep(l, i) == l

\* l[:i] + l[i+1:]  (i is 0-based)
RemoveAt(l, i) == SubSeq(l, 1, i) \o SubSeq(l, i + 2, Len(l))

\* l.index(x), 0-based
IndexOf(l, x) == (CHOOSE i \in 1..Len(l) : l[i] = x /\ \A j \in 1..(i - 1) : l[j] # x) - 1

\* one step of a stable sort by id: x goes after every element with id <= x.id
RECURSIVE InsertById(_, _)
InsertById(x, l) ==
    IF l = <<>> THEN <<x>>
    ELSE IF Head(l).id <= x.id THEN <<Head(l)>> \o InsertById(x, Tail(l))
    ELSE <<x>> \o l

\* sorted(l, key=lambda x: x.id)
RECURSIVE sorted(_)
sorted(l) ==
    IF l = <<>> THEN <<>>
    ELSE InsertById(l[Len(l)], sorted(SubSeq(l, 1, Len(l) - 1)))

\* ----- TagData -----

\* mutant of TagData: an object of an unrecognized tag is put in the first block
TagData_misc(tag, object_list) ==
    LET objects == sorted(SelectSeq(object_list,
                        LAMBDA x : x.tag = tag \/
                                   (tag = allowed_tags[1] /\ x.tag \notin AllowedSet)))
    IN  [tag |-> tag, objects |-> objects, size |-> Len(objects), _start |-> 0]

TagData(tag, object_list) ==
    LET objects == sorted(SelectSeq(object_list, LAMBDA x : x.tag = tag))
    IN  [tag |-> tag, objects |-> objects, size |-> Len(objects), _start |-> 0]

\* mutant of end: the offset of the block is forgotten
end_size(td) == td.size

start(td) == td._start

end(td) == td._start + td.size

\* ----- EvaluationMatrix.__init__ -----

\* the dictionaries self.s / self.t before the offsets are finalized
TagTable(object_list) == [tag \in AllowedSet |-> TagData(tag, object_list)]

\* "finalize the offsets": the loop over i in range(1, len(allowed_tags));
\* i here is the 1-based position of the tag being given its _start
RECURSIVE FinalizeOffsets(_, _)
FinalizeOffsets(d, i) ==
    IF i > Len(allowed_tags) THEN d
    ELSE FinalizeOffsets(
            [d EXCEPT ![allowed_tags[i]]._start = end(d[allowed_tags[i - 1]])],
            i + 1)

\* the extend loop: the tag blocks laid end to end, from tag position i on
RECURSIVE ExtendAll(_, _)
ExtendAll(d, i) ==
    IF i > Len(allowed_tags) THEN <<>>
    ELSE d[allowed_tags[i]].objects \o ExtendAll(d, i + 1)

\* self.m[i][j] = self.calc.priority(x, y)
BuildMatrix(c, stdArr, testArr) ==
    [i \in 0..(Len(stdArr) - 1) |->
        [j \in 0..(Len(testArr) - 1) |->
            c.priority[<<stdArr[i + 1].ref, testArr[j + 1].ref>>]]]

\* ----- Metrics -----

Rat(n, d) == [num |-> n, den |-> d]

\* a > b, a and b rationals with positive denominators
Gt(a, b) == a.num * b.den > b.num * a.den

\* a <= 1 and a >= 0
InUnit(a) == a.num >= 0 /\ a.num <= a.den

IsZero(a) == a.num = 0

\* Metrics.createSimple(tp, n_std, n_test); tp counts units of 1 / QScale.
\* precision = tp / n_test (0 if n_test = 0), recall = tp / n_std (0 if
\* n_std = 0), f1 = 0 if tp = 0, else the harmonic mean 2PR / (P + R)
\* (taken as 0 when P + R = 0).
createSimple(tp, ns, nt) ==
    LET precision == IF nt = 0 THEN Rat(0, 1) ELSE Rat(tp, QScale * nt)
        recall == IF ns = 0 THEN Rat(0, 1) ELSE Rat(tp, QScale * ns)
        sum == precision.num * recall.den + recall.num * precision.den
        f1 == IF tp = 0 \/ sum = 0 THEN Rat(0, 1)
              ELSE Rat(2 * precision.num * recall.num, sum)
    IN  [tp |-> tp, n_std |-> ns, n_test |-> nt,
         precision |-> precision, recall |-> recall, f1 |-> f1]

\* ----- _reduce, _evaluate, _findMatches -----

\* self.calc.quality(self.std[i], self.test[j])
quality(i, j) == calc.quality[<<std[i + 1].ref, test[j + 1].ref>>]

_reduce(pairs, tag) ==
    SelectSeq(pairs, LAMBDA p : p[1] >= start(s[tag]) /\ p[1] < end(s[tag]))

\* the loop "for pair in subset: tp += quality(...)"
RECURSIVE SumQuality(_)
SumQuality(subset) ==
    IF subset = <<>> THEN 0
    ELSE quality(Head(subset)[1], Head(subset)[2]) + SumQuality(Tail(subset))

_evaluate(pairs, tag_filter) ==
    IF tag_filter \in AllowedSet
    THEN createSimple(SumQuality(_reduce(pairs, tag_filter)),
                      s[tag_filter].size, t[tag_filter].size)
    ELSE createSimple(SumQuality(pairs), n_std, n_test)

_findMatches(s_index, tst) ==
    LET perfect_matches == SelectSeq(tst, LAMBDA x : m[s_index][x] = PScale)
        matches == SelectSeq(tst, LAMBDA x : m[s_index][x] # 0)
    IN  IF Len(perfect_matches) > 0 THEN perfect_matches ELSE matches

\* ----- _recursiveSearch: frames and results -----

\* Python's None as a returned value, and a returned tuple (f1, pairs)
None == [none |-> TRUE, f1 |-> Rat(0, 1), pairs |-> <<>>]

Res(f1, pairs) == [none |-> FALSE, f1 |-> f1, pairs |-> pairs]

\* the frame of a call _recursiveSearch(std, test, pairs) that has not run yet
NewFrame(stdL, testL, pairs) ==
    [std |-> stdL, test |-> testL, pairs |-> pairs, at |-> "start",
     todo |-> <<>>, max_res |-> None,
     possible_pairs_count |-> 0, pair_max_alternatives |-> 0]

\* mutant of KLoop: a test object with a perfect partner elsewhere is not dropped
RECURSIVE KLoop_noprune(_, _, _, _)
KLoop_noprune(l, curr, c, acc) ==
    IF l = <<>> THEN acc
    ELSE LET k == Head(l)
             alt == IF m[k][c] # 0 THEN acc.alt_count + 1 ELSE acc.alt_count
             pma == IF alt > acc.pair_max_alternatives THEN alt
                    ELSE acc.pair_max_alternatives
         IN  KLoop_noprune(Tail(l), curr, c,
                   [skip_test_object |-> FALSE, alt_count |-> alt,
                    pair_max_alternatives |-> pma])

\* the loop "for k in std" for the candidate c of curr, over the rest l of std
RECURSIVE KLoop(_, _, _, _)
KLoop(l, curr, c, acc) ==
    IF l = <<>> THEN acc
    ELSE LET k == Head(l)
             skip == acc.skip_test_object \/ (m[k][c] = PScale /\ m[curr][c] < PScale)
             alt == IF m[k][c] # 0 THEN acc.alt_count + 1 ELSE acc.alt_count
             pma == IF alt > acc.pair_max_alternatives THEN alt
                    ELSE acc.pair_max_alternatives
         IN  KLoop(Tail(l), curr, c,
                   [skip_test_object |-> skip, alt_count |-> alt,
                    pair_max_alternatives |-> pma])

\* mutant of SkipCondition: the skip branch only without any candidate
SkipCondition_zero(f) == f.possible_pairs_count = 0

\* the condition of the skip branch (lines 139-140)
SkipCondition(f) ==
    \/ f.possible_pairs_count = 0
    \/ f.possible_pairs_count = 1 /\ f.pair_max_alternatives > 1

\* "if max_res is None or res[0] > max_res[0]: max_res = res"
Better(max_res, res) ==
    IF max_res.none \/ Gt(res.f1, max_res.f1) THEN res ELSE max_res

\* res[0] is evaluated, on a res that is None: TypeError
Raises(max_res, res) == ~max_res.none /\ res.none

Top == stack[Len(stack)]

Below == SubSeq(stack, 1, Len(stack) - 1)

\* the top call returns res to its caller
Return(res) ==
    /\ stack' = Below
    /\ ret' = <<res>>

\* an uncaught exception unwinds the whole stack
Raise ==
    /\ pc' = "error"
    /\ stack' = <<>>
    /\ ret' = <<>>

\* ----- the initial states -----

Obj(tag, id, ref) == [tag |-> tag, id |-> id, ref |-> ref]

\* every list of at most n input objects; ref is the object's identity
RawLists(n) ==
    UNION {{[i \in 1..k |-> Obj(f[i][1], f[i][2], i)] :
                f \in [1..k -> RawTags \X (1..MaxId)]} : k \in 0..n}

\* a list of n objects of one recognized tag, already in id order
PlainList(n) == [i \in 1..n |-> Obj(allowed_tags[1], i, i)]

\* every scorer on ns standard and nt test objects
Scorers(ns, nt) ==
    [priority : [(1..ns) \X (1..nt) -> PLevels],
     quality : [(1..ns) \X (1..nt) -> QLevels]]

\* the scorers that give every pair of objects the same priority and quality
FlatScorers(ns, nt) ==
    {[priority |-> [x \in (1..ns) \X (1..nt) |-> p],
      quality |-> [x \in (1..ns) \X (1..nt) |-> q]] : p \in PLevels, q \in QLevels}

\* nothing is built before __init__ has run
Unbuilt ==
    /\ pc = "new"
    /\ s = TagTable(<<>>)
    /\ t = TagTable(<<>>)
    /\ std = <<>>
    /\ test = <<>>
    /\ n_std = 0
    /\ n_test = 0
    /\ m = <<>>
    /\ stack = <<>>
    /\ ret = <<>>
    /\ matching = <<>>
    /\ metrics = <<>>
    /\ q_runs = <<>>

\* any scorer, on objects of one tag: the inputs of the search
Init ==
    /\ \E ns \in 0..MaxStd, nt \in 0..MaxTest :
          /\ rawStd = PlainList(ns)
          /\ rawTest = PlainList(nt)
          /\ calc \in Scorers(ns, nt)
    /\ calls = 1
    /\ Unbuilt

\* any scorer, at most one test object, findSolution called MaxRuns times
InitRerun ==
    /\ \E ns \in 0..MaxStd, nt \in 0..1 :
          /\ rawStd = PlainList(ns)
          /\ rawTest = PlainList(nt)
          /\ calc \in Scorers(ns, nt)
    /\ calls = MaxRuns
    /\ Unbuilt

\* any tags and ids, a flat scorer: the inputs of the partition
InitTags ==
    /\ rawStd \in RawLists(MaxRaw)
    /\ rawTest \in RawLists(MaxRaw)
    /\ calc \in FlatScorers(Len(rawStd), Len(rawTest))
    /\ calls = 1
    /\ Unbuilt

\* ----- the actions -----

\* EvaluationMatrix.__init__(std, test, calc)
Construct ==
    /\ pc = "new"
    /\ LET sd == FinalizeOffsets(TagTable(rawStd), 2)
           td == FinalizeOffsets(TagTable(rawTest), 2)
           stdArr == ExtendAll(sd, 1)
           testArr == ExtendAll(td, 1)
       IN  /\ s' = sd
           /\ t' = td
           /\ std' = stdArr
           /\ test' = testArr
           /\ n_std' = Len(stdArr)
           /\ n_test' = Len(testArr)
           /\ m' = BuildMatrix(calc, stdArr, testArr)
    /\ pc' = "ready"
    /\ UNCHANGED <<rawStd, rawTest, calc, calls, stack, ret, matching, metrics, q_runs>>

\* findSolution is called: the first call of _recursiveSearch
FindSolution ==
    /\ pc \in {"ready", "done"}
    /\ calls > 0
    /\ calls' = calls - 1
    /\ pc' = "search"
    /\ stack' = <<NewFrame(Range(n_std), Range(n_test), <<>>)>>
    /\ ret' = <<>>
    /\ UNCHANGED <<rawStd, rawTest, calc, s, t, std, test, n_std, n_test, m,
                   matching, metrics, q_runs>>

\* a call starts: the base case returns, otherwise the candidates are found
Enter ==
    /\ pc = "search"
    /\ stack # <<>>
    /\ Top.at = "start"
    /\ IF Len(Top.std) = 0 \/ Len(Top.test) = 0
       THEN Return(Res(_evaluate(Top.pairs, "").f1, Top.pairs))
       ELSE /\ stack' = Append(Below,
                   [Top EXCEPT !.at = "loop",
                               !.todo = _findMatches(Head(Top.std), Top.test)])
            /\ ret' = ret
    /\ UNCHANGED <<rawStd, rawTest, calc, calls, pc, s, t, std, test, n_std, n_test,
                   m, matching, metrics, q_runs>>

\* one pass of the loop over the candidates: the candidate is dropped, or
\* the pair is committed and the search recurses
Loop ==
    /\ pc = "search"
    /\ stack # <<>>
    /\ Top.at = "loop"
    /\ Top.todo # <<>>
    /\ LET curr == Head(Top.std)
           c == Head(Top.todo)
           i == IndexOf(Top.test, c)
           k == KLoop(Top.std, curr, c,
                      [skip_test_object |-> FALSE, alt_count |-> 0,
                       pair_max_alternatives |-> Top.pair_max_alternatives])
           f == [Top EXCEPT !.todo = Tail(Top.todo),
                            !.possible_pairs_count = @ + 1,
                            !.pair_max_alternatives = k.pair_max_alternatives]
       IN  IF k.skip_test_object
           THEN stack' = Append(Below, f)
           ELSE stack' = Append(Below, [f EXCEPT !.at = "wait"]) \o
                           <<NewFrame(Tail(Top.std), RemoveAt(Top.test, i),
                                      Append(Top.pairs, <<curr, c>>))>>
    /\ UNCHANGED <<rawStd, rawTest, calc, calls, pc, s, t, std, test, n_std, n_test,
                   m, ret, matching, metrics, q_runs>>

\* the committed branch has returned: keep the better result, go on looping
Resume ==
    /\ pc = "search"
    /\ stack # <<>>
    /\ Top.at = "wait"
    /\ ret # <<>>
    /\ IF Raises(Top.max_res, ret[1])
       THEN Raise
       ELSE /\ stack' = Append(Below,
                   [Top EXCEPT !.at = "loop", !.max_res = Better(@, ret[1])])
            /\ ret' = <<>>
            /\ pc' = pc
    /\ UNCHANGED <<rawStd, rawTest, calc, calls, s, t, std, test, n_std, n_test,
                   m, matching, metrics, q_runs>>

\* after the loop: the skip branch is explored, or the call returns max_res
SkipCheck ==
    /\ pc = "search"
    /\ stack # <<>>
    /\ Top.at = "loop"
    /\ Top.todo = <<>>
    /\ IF SkipCondition(Top)
       THEN /\ stack' = Append(Below, [Top EXCEPT !.at = "waitskip"]) \o
                           <<NewFrame(Tail(Top.std), Top.test, Top.pairs)>>
            /\ ret' = ret
       ELSE Return(Top.max_res)
    /\ UNCHANGED <<rawStd, rawTest, calc, calls, pc, s, t, std, test, n_std, n_test,
                   m, matching, metrics, q_runs>>

\* the skip branch has returned: keep the better result and return it
ResumeSkip ==
    /\ pc = "search"
    /\ stack # <<>>
    /\ Top.at = "waitskip"
    /\ ret # <<>>
    /\ IF Raises(Top.max_res, ret[1])
       THEN Raise
       ELSE /\ Return(Better(Top.max_res, ret[1]))
            /\ pc' = pc
    /\ UNCHANGED <<rawStd, rawTest, calc, calls, s, t, std, test, n_std, n_test,
                   m, matching, metrics, q_runs>>

\* the metrics map findSolution fills for a matching
MetricsOf(pairs) ==
    [key \in {"overall"} \cup AllowedSet |->
        IF key = "overall" THEN _evaluate(pairs, "") ELSE _evaluate(pairs, key)]

\* the first call has returned: findSolution unpacks the result (TypeError
\* if it is None), fills the metrics and returns the matching
Finish ==
    /\ pc = "search"
    /\ stack = <<>>
    /\ ret # <<>>
    /\ IF ret[1].none
       THEN /\ Raise
            /\ UNCHANGED <<matching, metrics, q_runs>>
       ELSE /\ matching' = ret[1].pairs
            /\ metrics' = MetricsOf(ret[1].pairs)
            /\ q_runs' = Append(q_runs, ret[1].f1)
            /\ pc' = "done"
            /\ stack' = stack
            /\ ret' = <<>>
    /\ UNCHANGED <<rawStd, rawTest, calc, calls, s, t, std, test, n_std, n_test, m>>

Next ==
    \/ Construct
    \/ FindSolution
    \/ Enter
    \/ Loop
    \/ Resume
    \/ SkipCheck
    \/ ResumeSkip
    \/ Finish

Spec == Init /\ [][Next]_vars

SpecRerun == InitRerun /\ [][Next]_vars

SpecTags == InitTags /\ [][Next]_vars

\* ----- definitions shared by the properties -----

Frames == Elems(stack)

RatEq(a, b) == a.num * b.den = b.num * a.den

\* the overall F1 of a matching
F1Of(pairs) == _evaluate(pairs, "").f1

\* no standard index and no test index occurs in two pairs
Injective(pairs) ==
    \A i, j \in 1..Len(pairs) :
        i # j => pairs[i][1] # pairs[j][1] /\ pairs[i][2] # pairs[j][2]

\* steps 1 and 2 for the head of stdL: the candidates that are not reserved
\* for a perfect partner in the remaining standard pool
Survivors(stdL, testL) ==
    LET curr == Head(stdL)
    IN  SelectSeq(_findMatches(curr, testL),
                  LAMBDA c : ~(m[curr][c] < PScale /\
                               \E k \in Elems(stdL) : m[k][c] = PScale))

\* the matchings reached when steps 1-3 are applied and the head standard
\* index may be skipped at every step
RECURSIVE FreeSkipMatchings(_, _, _)
FreeSkipMatchings(stdL, testL, pairs) ==
    IF stdL = <<>> \/ testL = <<>> THEN {pairs}
    ELSE FreeSkipMatchings(Tail(stdL), testL, pairs) \cup
         UNION {FreeSkipMatchings(Tail(stdL),
                                  RemoveAt(testL, IndexOf(testL, c)),
                                  Append(pairs, <<Head(stdL), c>>)) :
                    c \in Elems(Survivors(stdL, testL))}

\* the top call has finished its loop and is about to decide on the skip branch
AtSkipCheck == pc = "search" /\ stack # <<>> /\ Top.at = "loop" /\ Top.todo = <<>>

\* ----- the properties -----

\* C1: the F1 of the matching findSolution returns is the greatest F1 among
\* the matchings reached when skipping the head is allowed at every step.
C1_Exact ==
    pc = "done" =>
        \A p \in FreeSkipMatchings(Range(n_std), Range(n_test), <<>>) :
            ~Gt(F1Of(p), F1Of(matching))

\* C2: a pair (i, j) of priority 1, with no other priority 1 in row i or
\* column j, is in the matching findSolution returns.
C2_PerfectMandate ==
    pc = "done" =>
        \A i \in 0..(n_std - 1), j \in 0..(n_test - 1) :
            ( /\ m[i][j] = PScale
              /\ \A j2 \in 0..(n_test - 1) : j2 # j => m[i][j2] # PScale
              /\ \A i2 \in 0..(n_std - 1) : i2 # i => m[i2][j] # PScale )
            => <<i, j>> \in Elems(matching)

\* C3: in the pairs of every call, in every returned result and in the
\* matching findSolution returns, no index is used twice, and no committed
\* index is still in a remaining pool.
C3_NoReuse ==
    /\ \A f \in Frames :
          /\ Injective(f.pairs)
          /\ \A i \in 1..Len(f.pairs) :
                /\ f.pairs[i][1] \notin Elems(f.std)
                /\ f.pairs[i][2] \notin Elems(f.test)
          /\ Injective(f.max_res.pairs)
    /\ \A i \in 1..Len(ret) : Injective(ret[i].pairs)
    /\ pc = "done" => Injective(matching)

\* a finished search that committed two pairs
C3_Witness == pc = "done" /\ Len(matching) >= 2

\* C4: every call returns a tuple (F1, pairs) and findSolution completes.
C4_Completes ==
    /\ pc # "error"
    /\ \A i \in 1..Len(ret) : ~ret[i].none

\* C5: every stored Metrics value has precision, recall and f1 in [0, 1],
\* and f1 = 0 when tp = 0.
C5_MetricBounds ==
    pc = "done" =>
        \A key \in DOMAIN metrics :
            /\ InUnit(metrics[key].precision)
            /\ InUnit(metrics[key].recall)
            /\ InUnit(metrics[key].f1)
            /\ metrics[key].tp = 0 => IsZero(metrics[key].f1)

\* the partition of one side: d the tag table, arr the reordered array, raw
\* the input list
PartitionOK(d, arr, raw) ==
    LET n == Len(allowed_tags)
        InRange(x, tag) == start(d[tag]) <= x /\ x < end(d[tag])
        kept == {i \in 1..Len(raw) : raw[i].tag \in AllowedSet}
    IN  /\ start(d[allowed_tags[1]]) = 0
        /\ \A i \in 2..n : start(d[allowed_tags[i]]) = end(d[allowed_tags[i - 1]])
        /\ end(d[allowed_tags[n]]) = Len(arr)
        /\ \A x \in 0..(Len(arr) - 1) :
              /\ Cardinality({tag \in AllowedSet : InRange(x, tag)}) = 1
              /\ \A tag \in AllowedSet : InRange(x, tag) => arr[x + 1].tag = tag
        /\ \A tag \in AllowedSet : \A x, y \in 0..(Len(arr) - 1) :
              (InRange(x, tag) /\ InRange(y, tag) /\ x < y)
                  => arr[x + 1].id <= arr[y + 1].id
        /\ Len(arr) = Cardinality(kept)
        /\ {arr[i].ref : i \in 1..Len(arr)} = kept
        /\ \A i \in 1..Len(arr) : arr[i] = raw[arr[i].ref]

\* C6: after construction the tag ranges tile the reordered array in tag
\* order, each object has the tag of its range, ids do not decrease inside
\* a range, and the array holds exactly the input objects of recognized tags.
C6_Partition ==
    pc # "new" => PartitionOK(s, std, rawStd) /\ PartitionOK(t, test, rawTest)

\* a construction that reordered the standard objects and dropped a test
\* object of an unrecognized tag
C6_Witness ==
    /\ pc # "new"
    /\ Len(std) = 2 /\ std[1].ref = 2
    /\ Len(test) < Len(rawTest)

\* a and b are the only standard objects that can be paired with the single
\* test object, both with priority 1
ScenarioC(a, b) ==
    /\ n_test = 1
    /\ a < b
    /\ m[a][0] = PScale /\ m[b][0] = PScale
    /\ \A k \in 0..(n_std - 1) : k \notin {a, b} => m[k][0] = 0

\* C7: in scenario C the matching is one pair that uses the test object, its
\* F1 is the larger of the F1 of the two pairings, and every run of
\* findSolution on the input gives the same F1.
C7_ScenarioC ==
    pc = "done" =>
        \A a, b \in 0..(n_std - 1) :
            ScenarioC(a, b) =>
                /\ Len(matching) = 1
                /\ matching[1] \in {<<a, 0>>, <<b, 0>>}
                /\ LET fa == F1Of(<<<<a, 0>>>>)
                       fb == F1Of(<<<<b, 0>>>>)
                   IN  RatEq(metrics["overall"].f1, IF Gt(fb, fa) THEN fb ELSE fa)
                /\ \A i \in 1..Len(q_runs) : RatEq(q_runs[i], metrics["overall"].f1)

\* scenario C, run twice, the second pairing being the better one
C7_Witness ==
    /\ pc = "done"
    /\ Len(q_runs) = 2
    /\ \E a, b \in 0..(n_std - 1) :
          ScenarioC(a, b) /\ quality(b, 0) > quality(a, 0)

Recognized(raw) == {i \in 1..Len(raw) : raw[i].tag \in AllowedSet}

\* C8: when one side has no object of a recognized tag, findSolution returns
\* the empty matching and every metrics entry is (0, 0, 0).
C8_EmptyInput ==
    (pc = "done" /\ (Recognized(rawStd) = {} \/ Recognized(rawTest) = {})) =>
        /\ matching = <<>>
        /\ \A key \in {"overall"} \cup AllowedSet :
              /\ IsZero(metrics[key].precision)
              /\ IsZero(metrics[key].recall)
              /\ IsZero(metrics[key].f1)

\* the standard side is emptied by the tag filter, the test side is not empty
C8_Witness ==
    /\ pc = "done"
    /\ Len(rawStd) > 0 /\ n_std = 0
    /\ n_test > 0

\* the skip rule as stated: no surviving candidate, or one candidate whose
\* test object has nonzero priority with more than one remaining standard index
StatedSkip(f) ==
    LET curr == Head(f.std)
        cands == _findMatches(curr, f.test)
    IN  \/ Len(Survivors(f.std, f.test)) = 0
        \/ /\ Len(cands) = 1
           /\ Cardinality({k \in Elems(f.std) : m[k][cands[1]] # 0}) > 1

\* C9: after the loop, the skip branch is explored exactly when the stated
\* skip rule holds.
C9_SkipRule ==
    [][AtSkipCheck => ((Len(stack') > Len(stack)) <=> StatedSkip(Top))]_vars

\* h, h+1, ..., n_std-1
Suffix(h) == [i \in 1..(n_std - h) |-> h + i - 1]

\* C10: the standard pool of every call is a suffix of 0..n_std-1, and every
\* pair of the returned matching has nonzero priority and, when imperfect,
\* its test object has no perfect partner among the later standard indices.
C10_Pruning ==
    /\ \A f \in Frames : \E h \in 0..n_std : f.std = Suffix(h)
    /\ pc = "done" =>
          \A i \in 1..Len(matching) :
              LET a == matching[i][1]
                  c == matching[i][2]
              IN  /\ m[a][c] # 0
                  /\ m[a][c] < PScale =>
                        \A k \in (a + 1)..(n_std - 1) : m[k][c] # PScale

\* a returned matching with an imperfect pair (a, c), where another test
\* object was withheld from a because a later standard object is its perfect
\* partner
C10_Witness ==
    /\ pc = "done"
    /\ \E i \in 1..Len(matching) :
          LET a == matching[i][1]
              c == matching[i][2]
          IN  /\ m[a][c] < PScale
              /\ \E c2 \in 0..(n_test - 1) : \E k \in (a + 1)..(n_std - 1) :
                    /\ c2 # c
                    /\ m[a][c2] # 0 /\ m[a][c2] < PScale
                    /\ m[k][c2] = PScale

====
